---- MODULE Spec2Model ----
(***************************************************************************)
(* Model of the dictionary database writer (db/src/writer.rs): the string  *)
(* pool, the intake of tags, terms and kanji, Writer::write (relevance     *)
(* sort, prefix / suffix / char indexes, vector arena, byte stream) and    *)
(* DB::load.                                                               *)
(*                                                                         *)
(* A Rust String is modelled as the sequence of its code points; the blob  *)
(* string_data and the sink hold bytes (0..255).  u32 / i32 scalars are    *)
(* written as four little-endian bytes.                                    *)
(***************************************************************************)
EXTENDS Integers, Sequences, FiniteSets, TLC

VARIABLES
    terms,        \* Writer.terms: Seq(TermData), in intake order
    kanji,        \* Writer.kanji: Seq(KanjiData), in intake order
    tags,         \* Writer.tags: Seq(TagData)
    tag_index,    \* Writer.tag_index: name -> position
    string_list,  \* Writer.string_list: Seq(<<offset, length>>)
    string_data,  \* Writer.string_data: the UTF-8 blob, a Seq of bytes
    string_hash,  \* Writer.string_hash: string -> index
    state,        \* "open", "consumed" (write took self) or "panicked"
    call,         \* the last call of intern: [arg, ret]
    result,       \* what write returned: "none", "Ok", "Err" or a panic
    sink,         \* the bytes the sink has received
    db            \* what DB::load returned; db.loaded is FALSE before

vars == <<terms, kanji, tags, tag_index, string_list, string_data,
          string_hash, state, call, result, sink, db>>

-----------------------------------------------------------------------------
(* Bounds of the model *)

\* Longest string (in code points) interned in SpecIntern.
MaxStrLen == 2
\* Largest string table (descriptors, the empty string included).
MaxStrings == 3
\* Most records pushed (tags + terms + kanji).
MaxRecords == 3

-----------------------------------------------------------------------------
(* Code points and UTF-8 *)

\* Code points used below: 97 'a', 98 'b', 769 U+0301 COMBINING ACUTE ACCENT
\* (two UTF-8 bytes), 26085 U+65E5 (three UTF-8 bytes), 128512 U+1F600 (four
\* UTF-8 bytes).

Min(a, b) == IF a < b THEN a ELSE b

RECURSIVE Concat(_)
\* The concatenation of a sequence of sequences.
Concat(ss) == IF ss = <<>> THEN <<>> ELSE Head(ss) \o Concat(Tail(ss))

RECURSIVE SumSeq(_)
SumSeq(s) == IF s = <<>> THEN 0 ELSE Head(s) + SumSeq(Tail(s))

Reverse(s) == [i \in 1..Len(s) |-> s[Len(s) + 1 - i]]

\* The UTF-8 encoding of one code point: one to four bytes.
Utf8Char(cp) ==
    IF cp < 128 THEN <<cp>>
    ELSE IF cp < 2048 THEN <<192 + (cp \div 64), 128 + (cp % 64)>>
    ELSE IF cp < 65536
    THEN <<224 + (cp \div 4096), 128 + ((cp \div 64) % 64), 128 + (cp % 64)>>
    ELSE <<240 + (cp \div 262144), 128 + ((cp \div 4096) % 64),
           128 + ((cp \div 64) % 64), 128 + (cp % 64)>>

\* String::as_bytes: the UTF-8 bytes of a string of code points.
Utf8(str) == Concat([i \in 1..Len(str) |-> Utf8Char(str[i])])

\* The number of bytes of the character a lead byte starts.
Utf8Width(lead) ==
    IF lead < 128 THEN 1 ELSE IF lead < 224 THEN 2 ELSE IF lead < 240 THEN 3 ELSE 4

RECURSIVE Utf8Decode(_)
\* The code points of a byte slice.  A slice that ends inside a character is
\* no str (slicing the blob there panics): -1 stands for it.
Utf8Decode(bytes) ==
    IF bytes = <<>> THEN <<>>
    ELSE IF Len(bytes) < Utf8Width(bytes[1]) THEN <<-1>>
    ELSE LET w == Utf8Width(bytes[1])
             cp == IF w = 1 THEN bytes[1]
                   ELSE IF w = 2 THEN (bytes[1] - 192) * 64 + (bytes[2] - 128)
                   ELSE IF w = 3
                   THEN (bytes[1] - 224) * 4096 + (bytes[2] - 128) * 64
                        + (bytes[3] - 128)
                   ELSE (bytes[1] - 240) * 262144 + (bytes[2] - 128) * 4096
                        + (bytes[3] - 128) * 64 + (bytes[4] - 128)
         IN  <<cp>> \o Utf8Decode(SubSeq(bytes, w + 1, Len(bytes)))

RECURSIVE BytesCmp(_, _)
\* Ord for str / [u8]: lexicographic on bytes; -1, 0 or 1.
BytesCmp(x, y) ==
    IF x = <<>> THEN (IF y = <<>> THEN 0 ELSE -1)
    ELSE IF y = <<>> THEN 1
    ELSE IF x[1] < y[1] THEN -1
    ELSE IF x[1] > y[1] THEN 1
    ELSE BytesCmp(Tail(x), Tail(y))

\* str::cmp on two strings: the byte order of their UTF-8 encodings.
StrCmp(a, b) == BytesCmp(Utf8(a), Utf8(b))

-----------------------------------------------------------------------------
(* The string pool *)

\* The string table has a descriptor for index.
InRange(index) == index < Len(string_list)

\* Writer::string: the slice of the blob the descriptor addresses.
string(index) ==
    LET offset == string_list[index + 1][1]
        length == string_list[index + 1][2]
        sta == offset
        end == sta + length
    IN  Utf8Decode(SubSeq(string_data, sta + 1, end))

\* Writer::new: empty tables, then intern(String::new()) as index 0.
new ==
    /\ terms = <<>>
    /\ kanji = <<>>
    /\ tags = <<>>
    /\ tag_index = <<>>
    /\ string_list = << <<0, 0>> >>
    /\ string_data = <<>>
    /\ string_hash = (<<>> :> 0)
    /\ state = "open"
    /\ call = [arg |-> <<>>, ret |-> 0]
    /\ result = "none"
    /\ sink = <<>>
    /\ db = [loaded |-> FALSE, panicked |-> FALSE, aborted |-> FALSE]

\* Writer::intern, the branch for a string that is already in string_hash.
internHit(value) ==
    /\ value \in DOMAIN string_hash
    /\ call' = [arg |-> value, ret |-> string_hash[value]]
    /\ UNCHANGED <<string_list, string_data, string_hash>>

\* internNew with the length counted in characters, not bytes.
internNew_CharLen(value) ==
    /\ value \notin DOMAIN string_hash
    /\ LET offset == Len(string_data)
           length == Len(value)
           index == Len(string_list)
       IN  /\ string_list' = Append(string_list, <<offset, length>>)
           /\ string_data' = string_data \o Utf8(value)
           /\ string_hash' = string_hash @@ (value :> index)
           /\ call' = [arg |-> value, ret |-> index]

\* Writer::intern, the branch that appends a new string.
internNew(value) ==
    /\ value \notin DOMAIN string_hash
    /\ LET offset == Len(string_data)
           length == Len(Utf8(value))
           index == Len(string_list)
       IN  /\ string_list' = Append(string_list, <<offset, length>>)
           /\ string_data' = string_data \o Utf8(value)
           /\ string_hash' = string_hash @@ (value :> index)
           /\ call' = [arg |-> value, ret |-> index]

\* Writer::intern(value).
intern(value) ==
    /\ state = "open"
    /\ (value \in DOMAIN string_hash \/ Len(string_list) < MaxStrings)
    /\ (internHit(value) \/ internNew(value))
    /\ UNCHANGED <<terms, kanji, tags, tag_index, state, result, sink, db>>

-----------------------------------------------------------------------------
(* Intake *)

\* A call after write took the writer, or after a panic, cannot happen.
Open == state = "open"

Records == Len(tags) + Len(terms) + Len(kanji)

\* HashMap::insert: binds key to val, replacing an earlier binding.
MapInsert(map, key, val) ==
    [k \in DOMAIN map \cup {key} |-> IF k = key THEN val ELSE map[k]]

\* Writer::push_tag. string(tag.name) indexes string_list and panics when
\* the name was never issued.
push_tag(tag) ==
    /\ Open
    /\ Records < MaxRecords
    /\ IF InRange(tag.name)
       THEN /\ tag_index' = MapInsert(tag_index, string(tag.name), Len(tags))
            /\ tags' = Append(tags, tag)
            /\ state' = state
       ELSE /\ state' = "panicked"
            /\ UNCHANGED <<tags, tag_index>>
    /\ UNCHANGED <<terms, kanji, string_list, string_data, string_hash,
                   call, result, sink, db>>

\* Writer::push_term.
push_term(term) ==
    /\ Open
    /\ Records < MaxRecords
    /\ terms' = Append(terms, term)
    /\ UNCHANGED <<kanji, tags, tag_index, string_list, string_data,
                   string_hash, state, call, result, sink, db>>

\* Writer::push_kanji.
push_kanji(k) ==
    /\ Open
    /\ Records < MaxRecords
    /\ kanji' = Append(kanji, k)
    /\ UNCHANGED <<terms, tags, tag_index, string_list, string_data,
                   string_hash, state, call, result, sink, db>>

-----------------------------------------------------------------------------
(* Writer::write: relevance sort *)

\* The position the element numbered x takes when inserted from the right
\* end of the sorted t: after the last one that does not come after it.
\* less[i, j] is what the comparator gives for elements i and j.
InsertAt(t, x, less) ==
    LET stay == {j \in 1..Len(t) : ~less[x, t[j]]}
    IN  IF stay = {} THEN 0 ELSE CHOOSE j \in stay : \A k \in stay : k <= j

\* slice::sort_by: a stable sort, as an insertion sort of the element
\* numbers 1..Len(s).
SortBy(s, less) ==
    LET sorted[k \in 0..Len(s)] ==
            IF k = 0 THEN <<>>
            ELSE LET t == sorted[k - 1]
                     p == InsertAt(t, k, less)
                 IN  SubSeq(t, 1, p) \o <<k>> \o SubSeq(t, p + 1, Len(t))
    IN  [i \in 1..Len(s) |-> s[sorted[Len(s)][i]]]

\* TermLess without the score as tie-breaker.
TermLess_NoTieBreak(a, b) == b.frequency < a.frequency

\* The comparator of self.terms.sort_by gives Ordering::Less for (a, b).
TermLess(a, b) ==
    IF a.frequency # b.frequency
    THEN b.frequency < a.frequency
    ELSE b.score < a.score

\* The comparator of self.kanji.sort_by gives Ordering::Less for (a, b).
KanjiLess(a, b) == b.frequency < a.frequency

SortedTerms ==
    SortBy(terms, [i, j \in 1..Len(terms) |-> TermLess(terms[i], terms[j])])

SortedKanji ==
    SortBy(kanji, [i, j \in 1..Len(kanji) |-> KanjiLess(kanji[i], kanji[j])])

-----------------------------------------------------------------------------
(* Writer::write: indexes *)

\* PrefixEntries with term positions counted from 1.
PrefixEntries_OneBased(it, index) ==
    << <<it.expression, index + 1>> >>
    \o (IF it.reading > 0 THEN << <<it.reading, index + 1>> >> ELSE <<>>)
    \o (IF it.search_key > 0 THEN << <<it.search_key, index + 1>> >> ELSE <<>>)

\* The (key, term position) entries of the term at position i (0-based).
PrefixEntries(it, index) ==
    << <<it.expression, index>> >>
    \o (IF it.reading > 0 THEN << <<it.reading, index>> >> ELSE <<>>)
    \o (IF it.search_key > 0 THEN << <<it.search_key, index>> >> ELSE <<>>)

\* index_prefix_jp before it is sorted.
PrefixUnsorted(ts) ==
    Concat([i \in 1..Len(ts) |-> PrefixEntries(ts[i], i - 1)])

\* PrefixLess comparing the StrIdx instead of the strings.
PrefixLess_ByIndex(a, b) == a[1] < b[1]

\* The comparator of index_prefix_jp.sort_by gives Ordering::Less for (a, b).
PrefixLess(a, b) == StrCmp(string(a[1]), string(b[1])) < 0

\* A sort of two or more entries compares every entry, and the comparator
\* calls self.string on both keys.
SortPanics(entries) ==
    /\ Len(entries) >= 2
    /\ \E i \in 1..Len(entries) : ~InRange(entries[i][1])

\* index_prefix_jp.
IndexPrefix(ts) ==
    LET e == PrefixUnsorted(ts)
    IN  SortBy(e, [i, j \in 1..Len(e) |-> PrefixLess(e[i], e[j])])

\* UnicodeSegmentation::graphemes(true): extended grapheme clusters, UAX #29.
\* The tables below are the properties of the Unicode Character Database
\* the rules refer to.

\* Grapheme_Cluster_Break = Control (CR and LF have classes of their own).
IsControl(cp) ==
    \/ (0 <= cp /\ cp <= 9) \/ (11 <= cp /\ cp <= 12)
    \/ (14 <= cp /\ cp <= 31) \/ (127 <= cp /\ cp <= 159) \/ cp = 173
    \/ cp = 1564 \/ cp = 6158 \/ cp = 8203 \/ (8206 <= cp /\ cp <= 8207)
    \/ (8232 <= cp /\ cp <= 8238) \/ (8288 <= cp /\ cp <= 8303) \/ cp = 65279
    \/ (65520 <= cp /\ cp <= 65531) \/ (78896 <= cp /\ cp <= 78911)
    \/ (113824 <= cp /\ cp <= 113827) \/ (119155 <= cp /\ cp <= 119162)
    \/ (917504 <= cp /\ cp <= 917535) \/ (917632 <= cp /\ cp <= 917759)
    \/ (918000 <= cp /\ cp <= 921599)

\* Grapheme_Cluster_Break = Extend: Grapheme_Extend and the emoji modifiers.
IsExtend(cp) ==
    \/ (768 <= cp /\ cp <= 879) \/ (1155 <= cp /\ cp <= 1161)
    \/ (1425 <= cp /\ cp <= 1469) \/ cp = 1471 \/ (1473 <= cp /\ cp <= 1474)
    \/ (1476 <= cp /\ cp <= 1477) \/ cp = 1479 \/ (1552 <= cp /\ cp <= 1562)
    \/ (1611 <= cp /\ cp <= 1631) \/ cp = 1648 \/ (1750 <= cp /\ cp <= 1756)
    \/ (1759 <= cp /\ cp <= 1764) \/ (1767 <= cp /\ cp <= 1768)
    \/ (1770 <= cp /\ cp <= 1773) \/ cp = 1809 \/ (1840 <= cp /\ cp <= 1866)
    \/ (1958 <= cp /\ cp <= 1968) \/ (2027 <= cp /\ cp <= 2035) \/ cp = 2045
    \/ (2070 <= cp /\ cp <= 2073) \/ (2075 <= cp /\ cp <= 2083)
    \/ (2085 <= cp /\ cp <= 2087) \/ (2089 <= cp /\ cp <= 2093)
    \/ (2137 <= cp /\ cp <= 2139) \/ (2199 <= cp /\ cp <= 2207)
    \/ (2250 <= cp /\ cp <= 2273) \/ (2275 <= cp /\ cp <= 2306) \/ cp = 2362
    \/ cp = 2364 \/ (2369 <= cp /\ cp <= 2376) \/ cp = 2381
    \/ (2385 <= cp /\ cp <= 2391) \/ (2402 <= cp /\ cp <= 2403) \/ cp = 2433
    \/ cp = 2492 \/ cp = 2494 \/ (2497 <= cp /\ cp <= 2500) \/ cp = 2509
    \/ cp = 2519 \/ (2530 <= cp /\ cp <= 2531) \/ cp = 2558
    \/ (2561 <= cp /\ cp <= 2562) \/ cp = 2620 \/ (2625 <= cp /\ cp <= 2626)
    \/ (2631 <= cp /\ cp <= 2632) \/ (2635 <= cp /\ cp <= 2637) \/ cp = 2641
    \/ (2672 <= cp /\ cp <= 2673) \/ cp = 2677 \/ (2689 <= cp /\ cp <= 2690)
    \/ cp = 2748 \/ (2753 <= cp /\ cp <= 2757) \/ (2759 <= cp /\ cp <= 2760)
    \/ cp = 2765 \/ (2786 <= cp /\ cp <= 2787) \/ (2810 <= cp /\ cp <= 2815)
    \/ cp = 2817 \/ cp = 2876 \/ (2878 <= cp /\ cp <= 2879)
    \/ (2881 <= cp /\ cp <= 2884) \/ cp = 2893 \/ (2901 <= cp /\ cp <= 2903)
    \/ (2914 <= cp /\ cp <= 2915) \/ cp = 2946 \/ cp = 3006 \/ cp = 3008
    \/ cp = 3021 \/ cp = 3031 \/ cp = 3072 \/ cp = 3076 \/ cp = 3132
    \/ (3134 <= cp /\ cp <= 3136) \/ (3142 <= cp /\ cp <= 3144)
    \/ (3146 <= cp /\ cp <= 3149) \/ (3157 <= cp /\ cp <= 3158)
    \/ (3170 <= cp /\ cp <= 3171) \/ cp = 3201 \/ cp = 3260
    \/ (3263 <= cp /\ cp <= 3264) \/ cp = 3266 \/ (3270 <= cp /\ cp <= 3272)
    \/ (3274 <= cp /\ cp <= 3277) \/ (3285 <= cp /\ cp <= 3286)
    \/ (3298 <= cp /\ cp <= 3299) \/ (3328 <= cp /\ cp <= 3329)
    \/ (3387 <= cp /\ cp <= 3388) \/ cp = 3390 \/ (3393 <= cp /\ cp <= 3396)
    \/ cp = 3405 \/ cp = 3415 \/ (3426 <= cp /\ cp <= 3427) \/ cp = 3457
    \/ cp = 3530 \/ cp = 3535 \/ (3538 <= cp /\ cp <= 3540) \/ cp = 3542
    \/ cp = 3551 \/ cp = 3633 \/ (3636 <= cp /\ cp <= 3642)
    \/ (3655 <= cp /\ cp <= 3662) \/ cp = 3761 \/ (3764 <= cp /\ cp <= 3772)
    \/ (3784 <= cp /\ cp <= 3790) \/ (3864 <= cp /\ cp <= 3865) \/ cp = 3893
    \/ cp = 3895 \/ cp = 3897 \/ (3953 <= cp /\ cp <= 3966)
    \/ (3968 <= cp /\ cp <= 3972) \/ (3974 <= cp /\ cp <= 3975)
    \/ (3981 <= cp /\ cp <= 3991) \/ (3993 <= cp /\ cp <= 4028) \/ cp = 4038
    \/ (4141 <= cp /\ cp <= 4144) \/ (4146 <= cp /\ cp <= 4151)
    \/ (4153 <= cp /\ cp <= 4154) \/ (4157 <= cp /\ cp <= 4158)
    \/ (4184 <= cp /\ cp <= 4185) \/ (4190 <= cp /\ cp <= 4192)
    \/ (4209 <= cp /\ cp <= 4212) \/ cp = 4226 \/ (4229 <= cp /\ cp <= 4230)
    \/ cp = 4237 \/ cp = 4253 \/ (4957 <= cp /\ cp <= 4959)
    \/ (5906 <= cp /\ cp <= 5909) \/ (5938 <= cp /\ cp <= 5940)
    \/ (5970 <= cp /\ cp <= 5971) \/ (6002 <= cp /\ cp <= 6003)
    \/ (6068 <= cp /\ cp <= 6069) \/ (6071 <= cp /\ cp <= 6077) \/ cp = 6086
    \/ (6089 <= cp /\ cp <= 6099) \/ cp = 6109 \/ (6155 <= cp /\ cp <= 6157)
    \/ cp = 6159 \/ (6277 <= cp /\ cp <= 6278) \/ cp = 6313
    \/ (6432 <= cp /\ cp <= 6434) \/ (6439 <= cp /\ cp <= 6440) \/ cp = 6450
    \/ (6457 <= cp /\ cp <= 6459) \/ (6679 <= cp /\ cp <= 6680) \/ cp = 6683
    \/ cp = 6742 \/ (6744 <= cp /\ cp <= 6750) \/ cp = 6752 \/ cp = 6754
    \/ (6757 <= cp /\ cp <= 6764) \/ (6771 <= cp /\ cp <= 6780) \/ cp = 6783
    \/ (6832 <= cp /\ cp <= 6862) \/ (6912 <= cp /\ cp <= 6915)
    \/ (6964 <= cp /\ cp <= 6973) \/ (6978 <= cp /\ cp <= 6980)
    \/ (7019 <= cp /\ cp <= 7027) \/ (7040 <= cp /\ cp <= 7041)
    \/ (7074 <= cp /\ cp <= 7077) \/ (7080 <= cp /\ cp <= 7085) \/ cp = 7142
    \/ (7144 <= cp /\ cp <= 7145) \/ cp = 7149 \/ (7151 <= cp /\ cp <= 7155)
    \/ (7212 <= cp /\ cp <= 7219) \/ (7222 <= cp /\ cp <= 7223)
    \/ (7376 <= cp /\ cp <= 7378) \/ (7380 <= cp /\ cp <= 7392)
    \/ (7394 <= cp /\ cp <= 7400) \/ cp = 7405 \/ cp = 7412
    \/ (7416 <= cp /\ cp <= 7417) \/ (7616 <= cp /\ cp <= 7679) \/ cp = 8204
    \/ (8400 <= cp /\ cp <= 8432) \/ (11503 <= cp /\ cp <= 11505)
    \/ cp = 11647 \/ (11744 <= cp /\ cp <= 11775)
    \/ (12330 <= cp /\ cp <= 12335) \/ (12441 <= cp /\ cp <= 12442)
    \/ (42607 <= cp /\ cp <= 42610) \/ (42612 <= cp /\ cp <= 42621)
    \/ (42654 <= cp /\ cp <= 42655) \/ (42736 <= cp /\ cp <= 42737)
    \/ cp = 43010 \/ cp = 43014 \/ cp = 43019 \/ (43045 <= cp /\ cp <= 43046)
    \/ cp = 43052 \/ (43204 <= cp /\ cp <= 43205)
    \/ (43232 <= cp /\ cp <= 43249) \/ cp = 43263
    \/ (43302 <= cp /\ cp <= 43309) \/ (43335 <= cp /\ cp <= 43345)
    \/ cp = 43347 \/ (43392 <= cp /\ cp <= 43394) \/ cp = 43443
    \/ (43446 <= cp /\ cp <= 43449) \/ (43452 <= cp /\ cp <= 43453)
    \/ cp = 43456 \/ cp = 43493 \/ (43561 <= cp /\ cp <= 43566)
    \/ (43569 <= cp /\ cp <= 43570) \/ (43573 <= cp /\ cp <= 43574)
    \/ cp = 43587 \/ cp = 43596 \/ cp = 43644 \/ cp = 43696
    \/ (43698 <= cp /\ cp <= 43700) \/ (43703 <= cp /\ cp <= 43704)
    \/ (43710 <= cp /\ cp <= 43711) \/ cp = 43713
    \/ (43756 <= cp /\ cp <= 43757) \/ cp = 43766 \/ cp = 44005 \/ cp = 44008
    \/ cp = 44013 \/ cp = 64286 \/ (65024 <= cp /\ cp <= 65039)
    \/ (65056 <= cp /\ cp <= 65071) \/ (65438 <= cp /\ cp <= 65439)
    \/ cp = 66045 \/ cp = 66272 \/ (66422 <= cp /\ cp <= 66426)
    \/ (68097 <= cp /\ cp <= 68099) \/ (68101 <= cp /\ cp <= 68102)
    \/ (68108 <= cp /\ cp <= 68111) \/ (68152 <= cp /\ cp <= 68154)
    \/ cp = 68159 \/ (68325 <= cp /\ cp <= 68326)
    \/ (68900 <= cp /\ cp <= 68903) \/ (68969 <= cp /\ cp <= 68973)
    \/ (69291 <= cp /\ cp <= 69292) \/ (69372 <= cp /\ cp <= 69375)
    \/ (69446 <= cp /\ cp <= 69456) \/ (69506 <= cp /\ cp <= 69509)
    \/ cp = 69633 \/ (69688 <= cp /\ cp <= 69702) \/ cp = 69744
    \/ (69747 <= cp /\ cp <= 69748) \/ (69759 <= cp /\ cp <= 69761)
    \/ (69811 <= cp /\ cp <= 69814) \/ (69817 <= cp /\ cp <= 69818)
    \/ cp = 69826 \/ (69888 <= cp /\ cp <= 69890)
    \/ (69927 <= cp /\ cp <= 69931) \/ (69933 <= cp /\ cp <= 69940)
    \/ cp = 70003 \/ (70016 <= cp /\ cp <= 70017)
    \/ (70070 <= cp /\ cp <= 70078) \/ cp = 70080
    \/ (70089 <= cp /\ cp <= 70092) \/ cp = 70095
    \/ (70191 <= cp /\ cp <= 70193) \/ (70196 <= cp /\ cp <= 70199)
    \/ cp = 70206 \/ cp = 70209 \/ cp = 70367 \/ (70371 <= cp /\ cp <= 70378)
    \/ (70400 <= cp /\ cp <= 70401) \/ (70459 <= cp /\ cp <= 70460)
    \/ cp = 70462 \/ cp = 70464 \/ cp = 70477 \/ cp = 70487
    \/ (70502 <= cp /\ cp <= 70508) \/ (70512 <= cp /\ cp <= 70516)
    \/ cp = 70584 \/ (70587 <= cp /\ cp <= 70592) \/ cp = 70594 \/ cp = 70597
    \/ (70599 <= cp /\ cp <= 70601) \/ (70606 <= cp /\ cp <= 70608)
    \/ cp = 70610 \/ (70625 <= cp /\ cp <= 70626)
    \/ (70712 <= cp /\ cp <= 70719) \/ (70722 <= cp /\ cp <= 70724)
    \/ cp = 70726 \/ cp = 70750 \/ cp = 70832 \/ (70835 <= cp /\ cp <= 70840)
    \/ cp = 70842 \/ cp = 70845 \/ (70847 <= cp /\ cp <= 70848)
    \/ (70850 <= cp /\ cp <= 70851) \/ cp = 71087
    \/ (71090 <= cp /\ cp <= 71093) \/ (71100 <= cp /\ cp <= 71101)
    \/ (71103 <= cp /\ cp <= 71104) \/ (71132 <= cp /\ cp <= 71133)
    \/ (71219 <= cp /\ cp <= 71226) \/ cp = 71229
    \/ (71231 <= cp /\ cp <= 71232) \/ cp = 71339 \/ cp = 71341
    \/ (71344 <= cp /\ cp <= 71351) \/ cp = 71453 \/ cp = 71455
    \/ (71458 <= cp /\ cp <= 71461) \/ (71463 <= cp /\ cp <= 71467)
    \/ (71727 <= cp /\ cp <= 71735) \/ (71737 <= cp /\ cp <= 71738)
    \/ cp = 71984 \/ (71995 <= cp /\ cp <= 71998) \/ cp = 72003
    \/ (72148 <= cp /\ cp <= 72151) \/ (72154 <= cp /\ cp <= 72155)
    \/ cp = 72160 \/ (72193 <= cp /\ cp <= 72202)
    \/ (72243 <= cp /\ cp <= 72248) \/ (72251 <= cp /\ cp <= 72254)
    \/ cp = 72263 \/ (72273 <= cp /\ cp <= 72278)
    \/ (72281 <= cp /\ cp <= 72283) \/ (72330 <= cp /\ cp <= 72342)
    \/ (72344 <= cp /\ cp <= 72345) \/ (72752 <= cp /\ cp <= 72758)
    \/ (72760 <= cp /\ cp <= 72765) \/ cp = 72767
    \/ (72850 <= cp /\ cp <= 72871) \/ (72874 <= cp /\ cp <= 72880)
    \/ (72882 <= cp /\ cp <= 72883) \/ (72885 <= cp /\ cp <= 72886)
    \/ (73009 <= cp /\ cp <= 73014) \/ cp = 73018
    \/ (73020 <= cp /\ cp <= 73021) \/ (73023 <= cp /\ cp <= 73029)
    \/ cp = 73031 \/ (73104 <= cp /\ cp <= 73105) \/ cp = 73109 \/ cp = 73111
    \/ (73459 <= cp /\ cp <= 73460) \/ (73472 <= cp /\ cp <= 73473)
    \/ (73526 <= cp /\ cp <= 73530) \/ (73536 <= cp /\ cp <= 73538)
    \/ cp = 73562 \/ cp = 78912 \/ (78919 <= cp /\ cp <= 78933)
    \/ (90398 <= cp /\ cp <= 90409) \/ (90413 <= cp /\ cp <= 90415)
    \/ (92912 <= cp /\ cp <= 92916) \/ (92976 <= cp /\ cp <= 92982)
    \/ cp = 94031 \/ (94095 <= cp /\ cp <= 94098) \/ cp = 94180
    \/ (94192 <= cp /\ cp <= 94193) \/ (113821 <= cp /\ cp <= 113822)
    \/ (118528 <= cp /\ cp <= 118573) \/ (118576 <= cp /\ cp <= 118598)
    \/ (119141 <= cp /\ cp <= 119145) \/ (119149 <= cp /\ cp <= 119154)
    \/ (119163 <= cp /\ cp <= 119170) \/ (119173 <= cp /\ cp <= 119179)
    \/ (119210 <= cp /\ cp <= 119213) \/ (119362 <= cp /\ cp <= 119364)
    \/ (121344 <= cp /\ cp <= 121398) \/ (121403 <= cp /\ cp <= 121452)
    \/ cp = 121461 \/ cp = 121476 \/ (121499 <= cp /\ cp <= 121503)
    \/ (121505 <= cp /\ cp <= 121519) \/ (122880 <= cp /\ cp <= 122886)
    \/ (122888 <= cp /\ cp <= 122904) \/ (122907 <= cp /\ cp <= 122913)
    \/ (122915 <= cp /\ cp <= 122916) \/ (122918 <= cp /\ cp <= 122922)
    \/ cp = 123023 \/ (123184 <= cp /\ cp <= 123190) \/ cp = 123566
    \/ (123628 <= cp /\ cp <= 123631) \/ (124140 <= cp /\ cp <= 124143)
    \/ (124398 <= cp /\ cp <= 124399) \/ (125136 <= cp /\ cp <= 125142)
    \/ (125252 <= cp /\ cp <= 125258) \/ (127995 <= cp /\ cp <= 127999)
    \/ (917536 <= cp /\ cp <= 917631) \/ (917760 <= cp /\ cp <= 917999)

\* Grapheme_Cluster_Break = SpacingMark.
IsSpacingMark(cp) ==
    \/ cp = 2307 \/ cp = 2363 \/ (2366 <= cp /\ cp <= 2368)
    \/ (2377 <= cp /\ cp <= 2380) \/ (2382 <= cp /\ cp <= 2383)
    \/ (2434 <= cp /\ cp <= 2435) \/ (2495 <= cp /\ cp <= 2496)
    \/ (2503 <= cp /\ cp <= 2504) \/ (2507 <= cp /\ cp <= 2508) \/ cp = 2563
    \/ (2622 <= cp /\ cp <= 2624) \/ cp = 2691 \/ (2750 <= cp /\ cp <= 2752)
    \/ cp = 2761 \/ (2763 <= cp /\ cp <= 2764) \/ (2818 <= cp /\ cp <= 2819)
    \/ cp = 2880 \/ (2887 <= cp /\ cp <= 2888) \/ (2891 <= cp /\ cp <= 2892)
    \/ cp = 3007 \/ (3009 <= cp /\ cp <= 3010) \/ (3014 <= cp /\ cp <= 3016)
    \/ (3018 <= cp /\ cp <= 3020) \/ (3073 <= cp /\ cp <= 3075)
    \/ (3137 <= cp /\ cp <= 3140) \/ (3202 <= cp /\ cp <= 3203) \/ cp = 3262
    \/ cp = 3265 \/ (3267 <= cp /\ cp <= 3268) \/ cp = 3315
    \/ (3330 <= cp /\ cp <= 3331) \/ (3391 <= cp /\ cp <= 3392)
    \/ (3398 <= cp /\ cp <= 3400) \/ (3402 <= cp /\ cp <= 3404)
    \/ (3458 <= cp /\ cp <= 3459) \/ (3536 <= cp /\ cp <= 3537)
    \/ (3544 <= cp /\ cp <= 3550) \/ (3570 <= cp /\ cp <= 3571) \/ cp = 3635
    \/ cp = 3763 \/ (3902 <= cp /\ cp <= 3903) \/ cp = 3967 \/ cp = 4145
    \/ (4155 <= cp /\ cp <= 4156) \/ (4182 <= cp /\ cp <= 4183) \/ cp = 4228
    \/ cp = 6070 \/ (6078 <= cp /\ cp <= 6085) \/ (6087 <= cp /\ cp <= 6088)
    \/ (6435 <= cp /\ cp <= 6438) \/ (6441 <= cp /\ cp <= 6443)
    \/ (6448 <= cp /\ cp <= 6449) \/ (6451 <= cp /\ cp <= 6456)
    \/ (6681 <= cp /\ cp <= 6682) \/ cp = 6741 \/ cp = 6743
    \/ (6765 <= cp /\ cp <= 6770) \/ cp = 6916 \/ (6974 <= cp /\ cp <= 6977)
    \/ cp = 7042 \/ cp = 7073 \/ (7078 <= cp /\ cp <= 7079) \/ cp = 7143
    \/ (7146 <= cp /\ cp <= 7148) \/ cp = 7150 \/ (7204 <= cp /\ cp <= 7211)
    \/ (7220 <= cp /\ cp <= 7221) \/ cp = 7393 \/ cp = 7415
    \/ (43043 <= cp /\ cp <= 43044) \/ cp = 43047
    \/ (43136 <= cp /\ cp <= 43137) \/ (43188 <= cp /\ cp <= 43203)
    \/ cp = 43346 \/ cp = 43395 \/ (43444 <= cp /\ cp <= 43445)
    \/ (43450 <= cp /\ cp <= 43451) \/ (43454 <= cp /\ cp <= 43455)
    \/ (43567 <= cp /\ cp <= 43568) \/ (43571 <= cp /\ cp <= 43572)
    \/ cp = 43597 \/ cp = 43755 \/ (43758 <= cp /\ cp <= 43759) \/ cp = 43765
    \/ (44003 <= cp /\ cp <= 44004) \/ (44006 <= cp /\ cp <= 44007)
    \/ (44009 <= cp /\ cp <= 44010) \/ cp = 44012 \/ cp = 69632 \/ cp = 69634
    \/ cp = 69762 \/ (69808 <= cp /\ cp <= 69810)
    \/ (69815 <= cp /\ cp <= 69816) \/ cp = 69932
    \/ (69957 <= cp /\ cp <= 69958) \/ cp = 70018
    \/ (70067 <= cp /\ cp <= 70069) \/ cp = 70079 \/ cp = 70094
    \/ (70188 <= cp /\ cp <= 70190) \/ (70194 <= cp /\ cp <= 70195)
    \/ (70368 <= cp /\ cp <= 70370) \/ (70402 <= cp /\ cp <= 70403)
    \/ cp = 70463 \/ (70465 <= cp /\ cp <= 70468)
    \/ (70471 <= cp /\ cp <= 70472) \/ (70475 <= cp /\ cp <= 70476)
    \/ (70498 <= cp /\ cp <= 70499) \/ (70585 <= cp /\ cp <= 70586)
    \/ cp = 70602 \/ (70604 <= cp /\ cp <= 70605)
    \/ (70709 <= cp /\ cp <= 70711) \/ (70720 <= cp /\ cp <= 70721)
    \/ cp = 70725 \/ (70833 <= cp /\ cp <= 70834) \/ cp = 70841
    \/ (70843 <= cp /\ cp <= 70844) \/ cp = 70846 \/ cp = 70849
    \/ (71088 <= cp /\ cp <= 71089) \/ (71096 <= cp /\ cp <= 71099)
    \/ cp = 71102 \/ (71216 <= cp /\ cp <= 71218)
    \/ (71227 <= cp /\ cp <= 71228) \/ cp = 71230 \/ cp = 71340
    \/ (71342 <= cp /\ cp <= 71343) \/ cp = 71454 \/ cp = 71462
    \/ (71724 <= cp /\ cp <= 71726) \/ cp = 71736
    \/ (71985 <= cp /\ cp <= 71989) \/ (71991 <= cp /\ cp <= 71992)
    \/ cp = 72000 \/ cp = 72002 \/ (72145 <= cp /\ cp <= 72147)
    \/ (72156 <= cp /\ cp <= 72159) \/ cp = 72164 \/ cp = 72249
    \/ (72279 <= cp /\ cp <= 72280) \/ cp = 72343 \/ cp = 72751 \/ cp = 72766
    \/ cp = 72873 \/ cp = 72881 \/ cp = 72884 \/ (73098 <= cp /\ cp <= 73102)
    \/ (73107 <= cp /\ cp <= 73108) \/ cp = 73110
    \/ (73461 <= cp /\ cp <= 73462) \/ cp = 73475
    \/ (73524 <= cp /\ cp <= 73525) \/ (73534 <= cp /\ cp <= 73535)
    \/ (90410 <= cp /\ cp <= 90412) \/ (94033 <= cp /\ cp <= 94087)

\* Grapheme_Cluster_Break = Prepend.
IsPrepend(cp) ==
    \/ (1536 <= cp /\ cp <= 1541) \/ cp = 1757 \/ cp = 1807
    \/ (2192 <= cp /\ cp <= 2193) \/ cp = 2274 \/ cp = 3406 \/ cp = 69821
    \/ cp = 69837 \/ (70082 <= cp /\ cp <= 70083) \/ cp = 70609 \/ cp = 71999
    \/ cp = 72001 \/ cp = 72250 \/ (72324 <= cp /\ cp <= 72329) \/ cp = 73030
    \/ cp = 73474

\* Grapheme_Cluster_Break = Regional_Indicator.
IsRegionalIndicator(cp) ==
    \/ (127462 <= cp /\ cp <= 127487)

\* Grapheme_Cluster_Break = L, V and T: the Hangul jamo.
IsHangulL(cp) ==
    \/ (4352 <= cp /\ cp <= 4447) \/ (43360 <= cp /\ cp <= 43388)

IsHangulV(cp) ==
    \/ (4448 <= cp /\ cp <= 4519) \/ (55216 <= cp /\ cp <= 55238)
    \/ cp = 93539 \/ (93543 <= cp /\ cp <= 93546)

IsHangulT(cp) ==
    \/ (4520 <= cp /\ cp <= 4607) \/ (55243 <= cp /\ cp <= 55291)

\* Extended_Pictographic (emoji-data).
IsExtendedPictographic(cp) ==
    \/ cp = 169 \/ cp = 174 \/ cp = 8252 \/ cp = 8265 \/ cp = 8482
    \/ cp = 8505 \/ (8596 <= cp /\ cp <= 8601) \/ (8617 <= cp /\ cp <= 8618)
    \/ (8986 <= cp /\ cp <= 8987) \/ cp = 9000 \/ cp = 9096 \/ cp = 9167
    \/ (9193 <= cp /\ cp <= 9203) \/ (9208 <= cp /\ cp <= 9210) \/ cp = 9410
    \/ (9642 <= cp /\ cp <= 9643) \/ cp = 9654 \/ cp = 9664
    \/ (9723 <= cp /\ cp <= 9726) \/ (9728 <= cp /\ cp <= 9733)
    \/ (9735 <= cp /\ cp <= 9746) \/ (9748 <= cp /\ cp <= 9861)
    \/ (9872 <= cp /\ cp <= 9989) \/ (9992 <= cp /\ cp <= 10002) \/ cp = 10004
    \/ cp = 10006 \/ cp = 10013 \/ cp = 10017 \/ cp = 10024
    \/ (10035 <= cp /\ cp <= 10036) \/ cp = 10052 \/ cp = 10055 \/ cp = 10060
    \/ cp = 10062 \/ (10067 <= cp /\ cp <= 10069) \/ cp = 10071
    \/ (10083 <= cp /\ cp <= 10087) \/ (10133 <= cp /\ cp <= 10135)
    \/ cp = 10145 \/ cp = 10160 \/ cp = 10175 \/ (10548 <= cp /\ cp <= 10549)
    \/ (11013 <= cp /\ cp <= 11015) \/ (11035 <= cp /\ cp <= 11036)
    \/ cp = 11088 \/ cp = 11093 \/ cp = 12336 \/ cp = 12349 \/ cp = 12951
    \/ cp = 12953 \/ (126976 <= cp /\ cp <= 127231)
    \/ (127245 <= cp /\ cp <= 127247) \/ cp = 127279
    \/ (127340 <= cp /\ cp <= 127345) \/ (127358 <= cp /\ cp <= 127359)
    \/ cp = 127374 \/ (127377 <= cp /\ cp <= 127386)
    \/ (127405 <= cp /\ cp <= 127461) \/ (127489 <= cp /\ cp <= 127503)
    \/ cp = 127514 \/ cp = 127535 \/ (127538 <= cp /\ cp <= 127546)
    \/ (127548 <= cp /\ cp <= 127551) \/ (127561 <= cp /\ cp <= 127994)
    \/ (128000 <= cp /\ cp <= 128317) \/ (128326 <= cp /\ cp <= 128591)
    \/ (128640 <= cp /\ cp <= 128767) \/ (128884 <= cp /\ cp <= 128895)
    \/ (128981 <= cp /\ cp <= 129023) \/ (129036 <= cp /\ cp <= 129039)
    \/ (129096 <= cp /\ cp <= 129103) \/ (129114 <= cp /\ cp <= 129119)
    \/ (129160 <= cp /\ cp <= 129167) \/ (129198 <= cp /\ cp <= 129279)
    \/ (129292 <= cp /\ cp <= 129338) \/ (129340 <= cp /\ cp <= 129349)
    \/ (129351 <= cp /\ cp <= 129791) \/ (130048 <= cp /\ cp <= 131069)

\* Indic_Conjunct_Break = Consonant.
IsInCBConsonant(cp) ==
    \/ (2325 <= cp /\ cp <= 2361) \/ (2392 <= cp /\ cp <= 2399)
    \/ (2424 <= cp /\ cp <= 2431) \/ (2453 <= cp /\ cp <= 2472)
    \/ (2474 <= cp /\ cp <= 2480) \/ cp = 2482 \/ (2486 <= cp /\ cp <= 2489)
    \/ (2524 <= cp /\ cp <= 2525) \/ cp = 2527 \/ (2544 <= cp /\ cp <= 2545)
    \/ (2709 <= cp /\ cp <= 2728) \/ (2730 <= cp /\ cp <= 2736)
    \/ (2738 <= cp /\ cp <= 2739) \/ (2741 <= cp /\ cp <= 2745) \/ cp = 2809
    \/ (2837 <= cp /\ cp <= 2856) \/ (2858 <= cp /\ cp <= 2864)
    \/ (2866 <= cp /\ cp <= 2867) \/ (2869 <= cp /\ cp <= 2873)
    \/ (2908 <= cp /\ cp <= 2909) \/ cp = 2911 \/ cp = 2929
    \/ (3093 <= cp /\ cp <= 3112) \/ (3114 <= cp /\ cp <= 3129)
    \/ (3160 <= cp /\ cp <= 3162) \/ (3349 <= cp /\ cp <= 3386)

\* Indic_Conjunct_Break = Linker: the viramas of the same scripts.
IsInCBLinker(cp) ==
    \/ cp = 2381 \/ cp = 2509 \/ cp = 2765 \/ cp = 2893 \/ cp = 3149
    \/ cp = 3405

\* Hangul_Syllable_Type = LV: every 28th precomposed syllable from U+AC00;
\* the other precomposed syllables (to U+D7A3) are LVT.
IsHangulSyllable(cp) == 44032 <= cp /\ cp <= 55203

\* The Grapheme_Cluster_Break class of a code point; "Any" for the rest.
GCB(cp) ==
    IF cp = 13 THEN "CR"
    ELSE IF cp = 10 THEN "LF"
    ELSE IF cp = 8205 THEN "ZWJ"
    ELSE IF IsControl(cp) THEN "Control"
    ELSE IF cp < 169 THEN "Any"
    ELSE IF IsExtend(cp) THEN "Extend"
    ELSE IF IsSpacingMark(cp) THEN "SpacingMark"
    ELSE IF IsPrepend(cp) THEN "Prepend"
    ELSE IF IsHangulL(cp) THEN "L"
    ELSE IF IsHangulV(cp) THEN "V"
    ELSE IF IsHangulT(cp) THEN "T"
    ELSE IF IsHangulSyllable(cp)
    THEN (IF (cp - 44032) % 28 = 0 THEN "LV" ELSE "LVT")
    ELSE IF IsRegionalIndicator(cp) THEN "Regional_Indicator"
    ELSE IF IsExtendedPictographic(cp)
    THEN "Extended_Pictographic"
    ELSE "Any"

RECURSIVE Classes(_)
\* The class of each code point of a string.
Classes(str) ==
    IF str = <<>> THEN <<>> ELSE <<GCB(Head(str))>> \o Classes(Tail(str))

\* Indic_Conjunct_Break = Extend: Extend and ZWJ, the linkers and U+200C
\* left out.
IsInCBExtend(cp) ==
    /\ cp # 8204
    /\ ~IsInCBLinker(cp)
    /\ (cp = 8205 \/ IsExtend(cp))

\* GB9c: str[i + 1] is a consonant, and before it stand a consonant and
\* then only linkers and extending code points, one linker at least.
Conjunct(str, i) ==
    /\ IsInCBConsonant(str[i + 1])
    /\ \E j \in 1..(i - 1) :
          /\ IsInCBConsonant(str[j])
          /\ \A k \in (j + 1)..i :
                IsInCBLinker(str[k]) \/ IsInCBExtend(str[k])
          /\ \E k \in (j + 1)..i : IsInCBLinker(str[k])

\* GB11: str[i] is a ZWJ that follows a pictograph and Extend*, and
\* str[i + 1] is a pictograph.
EmojiZwj(c, i) ==
    /\ c[i] = "ZWJ"
    /\ c[i + 1] = "Extended_Pictographic"
    /\ \E j \in 1..(i - 1) :
          /\ c[j] = "Extended_Pictographic"
          /\ \A k \in (j + 1)..(i - 1) : c[k] = "Extend"

\* GB12, GB13: str[i] and str[i + 1] are regional indicators, and the run
\* of regional indicators that ends at i is of odd length.
FlagPair(c, i) ==
    /\ c[i] = "Regional_Indicator"
    /\ c[i + 1] = "Regional_Indicator"
    /\ LET run == {m \in 1..i :
                      \A k \in (i - m + 1)..i : c[k] = "Regional_Indicator"}
       IN  Cardinality(run) % 2 = 1

\* There is a cluster boundary between str[i] and str[i + 1]: the rules
\* GB3 to GB999 in order, c the classes of str.
Boundary(str, c, i) ==
    LET a == c[i]
        b == c[i + 1]
    IN  IF a = "CR" /\ b = "LF" THEN FALSE
        ELSE IF a \in {"Control", "CR", "LF"} THEN TRUE
        ELSE IF b \in {"Control", "CR", "LF"} THEN TRUE
        ELSE IF a = "L" /\ b \in {"L", "V", "LV", "LVT"} THEN FALSE
        ELSE IF a \in {"LV", "V"} /\ b \in {"V", "T"} THEN FALSE
        ELSE IF a \in {"LVT", "T"} /\ b = "T" THEN FALSE
        ELSE IF b \in {"Extend", "ZWJ"} THEN FALSE
        ELSE IF b = "SpacingMark" THEN FALSE
        ELSE IF a = "Prepend" THEN FALSE
        ELSE IF Conjunct(str, i) THEN FALSE
        ELSE IF EmojiZwj(c, i) THEN FALSE
        ELSE IF FlagPair(c, i) THEN FALSE
        ELSE TRUE

\* The clusters of str, c the classes of str and from the position the
\* next cluster starts at.
RECURSIVE ClustersFrom(_, _, _)
ClustersFrom(str, c, from) ==
    IF from > Len(str) THEN <<>>
    ELSE LET ends == {i \in from..Len(str) :
                         i = Len(str) \/ Boundary(str, c, i)}
             end == CHOOSE i \in ends : \A k \in ends : i <= k
         IN  <<SubSeq(str, from, end)>> \o ClustersFrom(str, c, end + 1)

\* UnicodeSegmentation::graphemes(true).
Graphemes(str) == ClustersFrom(str, Classes(str), 1)

\* GraphemeCursor::handle_incb_consonant: the look-back of GB9c from the
\* code point at k towards the start of the string.  It goes over linkers,
\* which it counts into the cursor's incb_linker_count, and over extending
\* code points; the first other code point allows the join when it is a
\* consonant and the count is positive.  The count starts from the one the
\* cursor holds: prev_boundary never resets it.
RECURSIVE handle_incb_consonant(_, _, _)
handle_incb_consonant(str, k, incb_linker_count) ==
    IF k = 0
    THEN [boundary |-> TRUE, incb_linker_count |-> incb_linker_count]
    ELSE IF IsInCBLinker(str[k])
    THEN handle_incb_consonant(str, k - 1, incb_linker_count + 1)
    ELSE IF IsInCBExtend(str[k])
    THEN handle_incb_consonant(str, k - 1, incb_linker_count)
    ELSE [boundary |-> ~(incb_linker_count > 0 /\ IsInCBConsonant(str[k])),
          incb_linker_count |-> incb_linker_count]

\* GraphemeCursor::is_boundary between str[i] and str[i + 1], for a cursor
\* that holds incb_linker_count: a consonant after a code point that is
\* neither a control nor a Prepend goes to handle_incb_consonant; the emoji
\* and flag look-backs keep no state that outlives the cursor's step.
is_boundary(str, c, i, incb_linker_count) ==
    IF IsInCBConsonant(str[i + 1])
           /\ c[i] \notin {"Control", "CR", "LF", "Prepend"}
    THEN handle_incb_consonant(str, i, incb_linker_count)
    ELSE [boundary |-> Boundary(str, c, i),
          incb_linker_count |-> incb_linker_count]

\* GraphemeCursor::prev_boundary from offset (in code points): one code
\* point back at a time, until is_boundary holds or the start is reached.
RECURSIVE prev_boundary(_, _, _, _)
prev_boundary(str, c, offset, incb_linker_count) ==
    IF offset - 1 = 0
    THEN [offset |-> 0, incb_linker_count |-> incb_linker_count]
    ELSE CHOOSE out \in
             {IF d.boundary
              THEN [offset |-> offset - 1,
                    incb_linker_count |-> d.incb_linker_count]
              ELSE prev_boundary(str, c, offset - 1, d.incb_linker_count) :
                  d \in {is_boundary(str, c, offset - 1, incb_linker_count)}} :
             TRUE

\* Graphemes::next_back until the iterator is empty: the clusters the one
\* backward cursor yields from end, last first.
RECURSIVE next_back(_, _, _, _)
next_back(str, c, end, incb_linker_count) ==
    IF end = 0 THEN <<>>
    ELSE CHOOSE out \in
             {<<SubSeq(str, p.offset + 1, end)>>
                  \o next_back(str, c, p.offset, p.incb_linker_count) :
                  p \in {prev_boundary(str, c, end, incb_linker_count)}} :
             TRUE

\* UnicodeSegmentation::graphemes(true).rev().
GraphemesRev(str) == next_back(str, Classes(str), Len(str), 0)

\* The closure rev: the clusters the backward iteration yields, collected
\* into one string.
rev(index) == Concat(GraphemesRev(string(index)))

\* The comparator of index_suffix_jp.sort_by gives Ordering::Less for (a, b).
SuffixLess(a, b) == StrCmp(rev(a[1]), rev(b[1])) < 0

\* index_suffix_jp: the prefix index, sorted again by the reversed key.
IndexSuffix(prefix) ==
    SortBy(prefix, [i, j \in 1..Len(prefix) |-> SuffixLess(prefix[i], prefix[j])])

\* TermChars with the search key indexed as well.
TermChars_WithSearchKey(it) ==
    LET key == string(it.expression) \o string(it.reading) \o string(it.search_key)
    IN  {key[k] : k \in 1..Len(key)}

\* The code points of expression followed by reading.
TermChars(it) ==
    LET key == string(it.expression) \o string(it.reading)
    IN  {key[k] : k \in 1..Len(key)}

\* The loop over terms reads string(expression) and string(reading).
CharsPanics(ts) ==
    \E i \in 1..Len(ts) : ~InRange(ts[i].expression) \/ ~InRange(ts[i].reading)

\* index_chars_jp: char -> HashSet of term positions.
IndexChars(ts) ==
    LET chars == UNION {TermChars(ts[i]) : i \in 1..Len(ts)}
    IN  [c \in chars |-> {i - 1 : i \in {j \in 1..Len(ts) : c \in TermChars(ts[j])}}]

\* The orders in which a HashMap with these keys may be iterated.
IterationOrders(keys) ==
    {o \in [1..Cardinality(keys) -> keys] :
        \A i, j \in 1..Cardinality(keys) : i # j => o[i] # o[j]}

RECURSIVE SortedSeq(_)
\* collect() of a set of u32 followed by sort(): ascending.
SortedSeq(set) ==
    IF set = {} THEN <<>>
    ELSE LET m == CHOOSE x \in set : \A y \in set : x <= y
         IN  <<m>> \o SortedSeq(set \ {m})

-----------------------------------------------------------------------------
(* Writer::write: the vector arena and the raw records *)

\* push_vec without the branch for an empty list.
push_vec_NoSentinel(vector_data, vec) ==
    [vector_data |-> vector_data \o vec,
     handle |-> [offset |-> Len(vector_data), length |-> Len(vec)]]

\* The closure push_vec: the arena after the call, and the handle.
push_vec(vector_data, vec) ==
    IF Len(vec) = 0
    THEN [vector_data |-> vector_data,
          handle |-> [offset |-> 0, length |-> 0]]
    ELSE [vector_data |-> vector_data \o vec,
          handle |-> [offset |-> Len(vector_data), length |-> Len(vec)]]

RECURSIVE PushAll(_, _)
\* push_vec applied to each list of vecs in turn, starting from the arena
\* vector_data: the final arena and the handles in call order.
PushAll(vector_data, vecs) ==
    IF vecs = <<>> THEN [vector_data |-> vector_data, handles |-> <<>>]
    ELSE LET one == push_vec(vector_data, Head(vecs))
             more == PushAll(one.vector_data, Tail(vecs))
         IN  [vector_data |-> more.vector_data,
              handles |-> <<one.handle>> \o more.handles]

\* FlattenStats keeping only the tag of each pair.
FlattenStats_TagsOnly(stats) == [i \in 1..Len(stats) |-> stats[i][1]]

\* kanji.stats.into_iter().flat_map(|x| vec![x.0, x.1]).collect()
FlattenStats(stats) ==
    Concat([i \in 1..Len(stats) |-> <<stats[i][1], stats[i][2]>>])

\* The lists of one kanji, in the order KanjiRaw's fields are evaluated.
KanjiVecs(k) == <<k.meanings, k.onyomi, k.kunyomi, k.tags, FlattenStats(k.stats)>>

\* The lists of one term, in the order TermRaw's fields are evaluated.
TermVecs(t) == <<t.glossary, t.rules, t.term_tags, t.definition_tags>>

KanjiFields == 5
TermFields == 4

\* Every call of push_vec that write makes, in order: the kanji, the terms,
\* then the char index entries in the order the HashMap yields them.
AllVecs(ks, ts, chars, order) ==
    Concat([j \in 1..Len(ks) |-> KanjiVecs(ks[j])])
    \o Concat([i \in 1..Len(ts) |-> TermVecs(ts[i])])
    \o [c \in 1..Len(order) |-> SortedSeq(chars[order[c]])]

TagRawOf(tag) ==
    [name |-> tag.name, category |-> tag.category, order |-> tag.order,
     notes |-> tag.notes]

KanjiRawOf(k, h) ==
    [character |-> k.character, frequency |-> k.frequency, source |-> k.source,
     meanings |-> h[1], onyomi |-> h[2], kunyomi |-> h[3], tags |-> h[4],
     stats |-> h[5]]

TermRawOf(t, h) ==
    [expression |-> t.expression, reading |-> t.reading,
     search_key |-> t.search_key, score |-> t.score, sequence |-> t.sequence,
     frequency |-> t.frequency, source |-> t.source,
     glossary |-> h[1], rules |-> h[2], term_tags |-> h[3],
     definition_tags |-> h[4]]

TermIndexOf(e) == [key |-> e[1], term |-> e[2]]

\* The locals of write once the lists are sorted and the three indexes are
\* built.
Built ==
    LET ts == SortedTerms
        prefix == IndexPrefix(ts)
    IN  [terms |-> ts, kanji |-> SortedKanji, index_prefix_jp |-> prefix,
         index_suffix_jp |-> IndexSuffix(prefix),
         index_chars_jp |-> IndexChars(ts)]

\* The Raw that write hands to Raw::write from the locals built, for one
\* iteration order of index_chars_jp.
RawOf(built, order) ==
    LET ts == built.terms
        ks == built.kanji
        index_prefix_jp == built.index_prefix_jp
        index_suffix_jp == built.index_suffix_jp
        index_chars_jp == built.index_chars_jp
        pushed == PushAll(<<>>, AllVecs(ks, ts, index_chars_jp, order))
        h == pushed.handles
        kbase == 0
        tbase == KanjiFields * Len(ks)
        cbase == tbase + TermFields * Len(ts)
    IN  [tags |-> [i \in 1..Len(tags) |-> TagRawOf(tags[i])],
         terms |-> [i \in 1..Len(ts) |->
                      TermRawOf(ts[i], SubSeq(h, tbase + TermFields * (i - 1) + 1,
                                              tbase + TermFields * i))],
         kanji |-> [j \in 1..Len(ks) |->
                      KanjiRawOf(ks[j], SubSeq(h, kbase + KanjiFields * (j - 1) + 1,
                                               kbase + KanjiFields * j))],
         index_prefix_jp |-> [i \in 1..Len(index_prefix_jp) |->
                                TermIndexOf(index_prefix_jp[i])],
         index_suffix_jp |-> [i \in 1..Len(index_suffix_jp) |->
                                TermIndexOf(index_suffix_jp[i])],
         index_chars_jp |-> [c \in 1..Len(order) |->
                               [character |-> order[c], indexes |-> h[cbase + c]]],
         vector_data |-> pushed.vector_data,
         string_list |-> [i \in 1..Len(string_list) |->
                            [offset |-> string_list[i][1],
                             length |-> string_list[i][2]]],
         string_data |-> string_data]

-----------------------------------------------------------------------------
(* Raw::write: the byte stream *)

\* u32::to_le_bytes; for an i32 the same bytes of its two's complement
\* (\div rounds down, so a negative value sign-extends).
LeBytes(v) ==
    <<v % 256, (v \div 256) % 256, (v \div 65536) % 256,
      (v \div 16777216) % 256>>

HandleBytes(h) == LeBytes(h.offset) \o LeBytes(h.length)

\* to_bytes of each record type: its fields in declaration order.
TagRawBytes(r) ==
    LeBytes(r.name) \o LeBytes(r.category) \o LeBytes(r.order) \o LeBytes(r.notes)

TermRawBytes(r) ==
    LeBytes(r.expression) \o LeBytes(r.reading) \o LeBytes(r.search_key)
    \o LeBytes(r.score) \o LeBytes(r.sequence) \o LeBytes(r.frequency)
    \o LeBytes(r.source) \o HandleBytes(r.glossary) \o HandleBytes(r.rules)
    \o HandleBytes(r.term_tags) \o HandleBytes(r.definition_tags)

KanjiRawBytes(r) ==
    LeBytes(r.character) \o LeBytes(r.frequency) \o LeBytes(r.source)
    \o HandleBytes(r.meanings) \o HandleBytes(r.onyomi)
    \o HandleBytes(r.kunyomi) \o HandleBytes(r.tags) \o HandleBytes(r.stats)

TermIndexBytes(r) == LeBytes(r.key) \o LeBytes(r.term)

CharIndexBytes(r) == LeBytes(r.character) \o HandleBytes(r.indexes)

StrHandleBytes(r) == LeBytes(r.offset) \o LeBytes(r.length)

\* write_len: one call of the sink with the four bytes of the length.
write_len(value) == <<LeBytes(value)>>

\* write_all: the buffers handed to the sink, one call per buffer:
\* the length, then each item's bytes.
write_all(items) == write_len(Len(items)) \o items

\* write_vec: the length, then one call per u32.
write_vec(vec) == write_len(Len(vec)) \o [i \in 1..Len(vec) |-> LeBytes(vec[i])]

\* Raw::write: every buffer it hands to writer.write, in call order.
RawCalls(raw) ==
    write_all([i \in 1..Len(raw.tags) |-> TagRawBytes(raw.tags[i])])
    \o write_all([i \in 1..Len(raw.terms) |-> TermRawBytes(raw.terms[i])])
    \o write_all([i \in 1..Len(raw.kanji) |-> KanjiRawBytes(raw.kanji[i])])
    \o write_all([i \in 1..Len(raw.index_prefix_jp) |->
                    TermIndexBytes(raw.index_prefix_jp[i])])
    \o write_all([i \in 1..Len(raw.index_suffix_jp) |->
                    TermIndexBytes(raw.index_suffix_jp[i])])
    \o write_all([i \in 1..Len(raw.index_chars_jp) |->
                    CharIndexBytes(raw.index_chars_jp[i])])
    \o write_vec(raw.vector_data)
    \o write_all([i \in 1..Len(raw.string_list) |->
                    StrHandleBytes(raw.string_list[i])])
    \o write_len(Len(raw.string_data))
    \o <<raw.string_data>>

\* The complete stream: what a sink that accepts every byte receives.
RawBytes(raw) == Concat(RawCalls(raw))

-----------------------------------------------------------------------------
(* The sink: an std::io::Write *)

\* A sink that accepts every byte of every call (a Vec<u8>).
Reliable == [errAt |-> 0, shortAt |-> 0, accept |-> 0]

\* io::Write::write may return Ok(n) with n < buf.len(): the bytes call k
\* of a sink with behaviour beh accepts from buf.
Accepted(beh, k, buf) ==
    IF k = beh.shortAt /\ Len(buf) > 0
    THEN SubSeq(buf, 1, Min(beh.accept, Len(buf) - 1))
    ELSE buf

\* Every call is writer.write(buf)?: the count returned is dropped, an
\* error returns at once.  The bytes received and the Result returned.
Deliver(calls, beh) ==
    LET failed == beh.errAt \in 1..Len(calls)
        done == IF failed THEN beh.errAt - 1 ELSE Len(calls)
    IN  [sink |-> Concat([k \in 1..done |-> Accepted(beh, k, calls[k])]),
         result |-> IF failed THEN "Err" ELSE "Ok"]

-----------------------------------------------------------------------------
(* Writer::write *)

\* write(self, writer): sort, build the indexes, print the statistics,
\* convert to Raw and write it to the sink.  stdout tells whether the
\* process's standard output takes what println! prints: println! panics
\* when it does not, and both calls come before the first byte is written.
write(beh, stdout) ==
    /\ Open
    /\ state' = "consumed"
    /\ IF SortPanics(PrefixUnsorted(SortedTerms)) \/ CharsPanics(SortedTerms)
       THEN /\ result' = "panic: index out of bounds"
            /\ sink' = sink
       ELSE IF DOMAIN IndexChars(SortedTerms) = {}
       THEN \* total_indexes / num_char_keys with num_char_keys = 0
            /\ result' = "panic: attempt to divide by zero"
            /\ sink' = sink
       ELSE IF ~stdout
       THEN /\ result' = "panic: failed printing to stdout"
            /\ sink' = sink
       ELSE \E built \in {Built} :
            \E order \in IterationOrders(DOMAIN built.index_chars_jp) :
                LET out == Deliver(RawCalls(RawOf(built, order)), beh)
                IN  /\ sink' = sink \o out.sink
                    /\ result' = out.result
    /\ UNCHANGED <<terms, kanji, tags, tag_index, string_list, string_data,
                   string_hash, call, db>>

-----------------------------------------------------------------------------
(* DB::load *)

\* size_of::<u32>()
U32_LEN == 4

\* u32::from_le of four bytes.
FromLe(b) == b[1] + 256 * b[2] + 65536 * b[3] + 16777216 * b[4]

\* The i32 whose two's complement the four bytes hold.
FromLeSigned(b) ==
    b[1] + 256 * b[2] + 65536 * b[3]
    + 16777216 * (IF b[4] >= 128 THEN b[4] - 256 ELSE b[4])

\* The n-th u32 (from 1) of a record's bytes.
Word(bytes, n) == SubSeq(bytes, U32_LEN * (n - 1) + 1, U32_LEN * n)

U32At(bytes, n) == FromLe(Word(bytes, n))

I32At(bytes, n) == FromLeSigned(Word(bytes, n))

HandleAt(bytes, n) == [offset |-> U32At(bytes, n), length |-> U32At(bytes, n + 1)]

\* What a build does with slice::from_raw_parts on an address that is not
\* aligned for the item type, which is undefined behaviour: the check of
\* the precondition aborts the process, or the values are read.
Misaligned == {"abort", "values"}

\* Addresses a byte slice may start at, modulo the alignment of u32: an
\* aligned one and one that is not.
Addresses == {0, 1}

\* cast_slice::<u8, U> of the bytes at address addr, align the alignment
\* of U: FALSE where from_raw_parts aborts.
cast_slice(addr, align, ub) == addr % align = 0 \/ ub = "values"

\* read_slice::<U> of src at address addr: the count, then count items of
\* item_size bytes each, the bytes that follow and their address.  ok is
\* FALSE where the assert or a slice panics, or where a cast aborts, and
\* abort tells the two apart.
read_slice(src, addr, item_size, align, ub) ==
    LET fail == [ok |-> FALSE, abort |-> FALSE, items |-> <<>>, next |-> <<>>,
                 addr |-> addr]
        stop == [fail EXCEPT !.abort = TRUE]
    IN  IF Len(src) < U32_LEN THEN fail
        ELSE IF ~cast_slice(addr, U32_LEN, ub) THEN stop
        ELSE LET count == FromLe(SubSeq(src, 1, U32_LEN))
                 rest == SubSeq(src, U32_LEN + 1, Len(src))
                 data_size == item_size * count
             IN  IF data_size > Len(rest) THEN fail
                 ELSE IF ~cast_slice(addr + U32_LEN, align, ub) THEN stop
                 ELSE [ok |-> TRUE, abort |-> FALSE,
                       items |-> [i \in 1..count |->
                                    SubSeq(rest, item_size * (i - 1) + 1,
                                           item_size * i)],
                       next |-> SubSeq(rest, data_size + 1, Len(rest)),
                       addr |-> addr + U32_LEN + data_size]

\* The typed views of the records' bytes.
TagRawAt(b) ==
    [name |-> U32At(b, 1), category |-> U32At(b, 2), order |-> I32At(b, 3),
     notes |-> U32At(b, 4)]

TermRawAt(b) ==
    [expression |-> U32At(b, 1), reading |-> U32At(b, 2),
     search_key |-> U32At(b, 3), score |-> I32At(b, 4),
     sequence |-> U32At(b, 5), frequency |-> U32At(b, 6),
     source |-> U32At(b, 7), glossary |-> HandleAt(b, 8),
     rules |-> HandleAt(b, 10), term_tags |-> HandleAt(b, 12),
     definition_tags |-> HandleAt(b, 14)]

KanjiRawAt(b) ==
    [character |-> U32At(b, 1), frequency |-> U32At(b, 2),
     source |-> U32At(b, 3), meanings |-> HandleAt(b, 4),
     onyomi |-> HandleAt(b, 6), kunyomi |-> HandleAt(b, 8),
     tags |-> HandleAt(b, 10), stats |-> HandleAt(b, 12)]

TermIndexAt(b) == [key |-> U32At(b, 1), term |-> U32At(b, 2)]

CharIndexAt(b) == [character |-> U32At(b, 1), indexes |-> HandleAt(b, 2)]

StrHandleAt(b) == [offset |-> U32At(b, 1), length |-> U32At(b, 2)]

\* size_of of each record type, in bytes.
TagRawSize == 4 * U32_LEN
TermRawSize == 15 * U32_LEN
KanjiRawSize == 13 * U32_LEN
TermIndexSize == 2 * U32_LEN
CharIndexSize == 3 * U32_LEN
StrHandleSize == 2 * U32_LEN

\* align_of of the record types, all of u32 and i32 fields.
RecordAlign == U32_LEN

LoadPanic == [loaded |-> FALSE, panicked |-> TRUE, aborted |-> FALSE]

LoadAbort == [loaded |-> FALSE, panicked |-> FALSE, aborted |-> TRUE]

\* The item size and alignment of the nine sections, in the order
\* Raw::write wrote them.
Sections ==
    <<[size |-> TagRawSize, align |-> RecordAlign],
      [size |-> TermRawSize, align |-> RecordAlign],
      [size |-> KanjiRawSize, align |-> RecordAlign],
      [size |-> TermIndexSize, align |-> RecordAlign],
      [size |-> TermIndexSize, align |-> RecordAlign],
      [size |-> CharIndexSize, align |-> RecordAlign],
      [size |-> U32_LEN, align |-> U32_LEN],
      [size |-> StrHandleSize, align |-> RecordAlign],
      [size |-> 1, align |-> 1]>>

RECURSIVE ReadSections(_, _, _, _)
\* The chain of read_slice calls of DB::load, each on what the one before
\* left: the results up to the first that fails.
ReadSections(src, addr, types, ub) ==
    IF types = <<>> THEN <<>>
    ELSE LET Then(r) ==
                 IF r.ok
                 THEN <<r>> \o ReadSections(r.next, r.addr, Tail(types), ub)
                 ELSE <<r>>
         IN  CHOOSE out \in
                 {Then(r) : r \in {read_slice(src, addr, Head(types).size,
                                              Head(types).align, ub)}} : TRUE

\* DB::load of data at address addr; the first read_slice that fails ends
\* the call.
Load(data, addr, ub) ==
    LET s == ReadSections(data, addr, Sections, ub)
        s1 == s[1]  s2 == s[2]  s3 == s[3]  s4 == s[4]  s5 == s[5]
        s6 == s[6]  s7 == s[7]  s8 == s[8]  s9 == s[9]
    IN  IF ~s[Len(s)].ok
        THEN (IF s[Len(s)].abort THEN LoadAbort ELSE LoadPanic)
        ELSE [loaded |-> TRUE, panicked |-> FALSE, aborted |-> FALSE,
              tags |-> [i \in 1..Len(s1.items) |-> TagRawAt(s1.items[i])],
              terms |-> [i \in 1..Len(s2.items) |-> TermRawAt(s2.items[i])],
              kanji |-> [i \in 1..Len(s3.items) |-> KanjiRawAt(s3.items[i])],
              index_prefix_jp |->
                  [i \in 1..Len(s4.items) |-> TermIndexAt(s4.items[i])],
              index_suffix_jp |->
                  [i \in 1..Len(s5.items) |-> TermIndexAt(s5.items[i])],
              index_chars_jp |->
                  [i \in 1..Len(s6.items) |-> CharIndexAt(s6.items[i])],
              vector_data |-> [i \in 1..Len(s7.items) |-> FromLe(s7.items[i])],
              string_list |->
                  [i \in 1..Len(s8.items) |-> StrHandleAt(s8.items[i])],
              string_data |-> [i \in 1..Len(s9.items) |-> s9.items[i][1]]]

\* DB::load(data) on the bytes the sink received from a write that
\* returned Ok, held at some address.
load ==
    /\ state = "consumed"
    /\ result = "Ok"
    /\ ~db.loaded /\ ~db.panicked /\ ~db.aborted
    /\ \E addr \in Addresses, ub \in Misaligned :
          \E out \in {Load(sink, addr, ub)} : db' = out
    /\ UNCHANGED <<terms, kanji, tags, tag_index, string_list, string_data,
                   string_hash, state, call, result, sink>>

-----------------------------------------------------------------------------
(* Inputs *)

\* The strings interned in Spec: "b" and "ba" + U+0301.
KeyStrings == {<<98>>, <<98, 97, 769>>}

\* Terms that differ in their keys; the first two are of equal rank, the
\* third has the lower score.  k is <<expression, reading, search_key,
\* score, sequence>>.
KeyTerms ==
    {[expression |-> k[1], reading |-> k[2], search_key |-> k[3],
      score |-> k[4], sequence |-> k[5], frequency |-> 5, glossary |-> <<>>,
      rules |-> <<>>, term_tags |-> <<>>, definition_tags |-> <<>>,
      source |-> 0] :
        k \in {<<1, 0, 0, 2, 7>>, <<1, 0, 2, 2, 8>>, <<2, 1, 1, -1, 9>>}}

\* Terms of frequency 0 that differ in their lists and their source; the
\* second one holds indices that were never issued.
ListTerms ==
    {[expression |-> 1, reading |-> 0, search_key |-> 0, score |-> 2,
      sequence |-> 10, frequency |-> 0, glossary |-> l[1], rules |-> l[2],
      term_tags |-> l[3], definition_tags |-> l[4], source |-> l[5]] :
        l \in {<< <<2, 1>>, <<0>>, <<>>, <<1, 0>>, 1 >>,
               << <<4>>, <<>>, <<2>>, <<>>, 5 >>}}

TermInputs == KeyTerms \cup ListTerms

TagInputs ==
    {[name |-> t[1], category |-> 0, order |-> t[2], notes |-> t[3]] :
        t \in {<<1, -1, 0>>, <<2, 2, 6>>}}

KanjiInputs ==
    {[character |-> l[1], frequency |-> l[2], meanings |-> l[3],
      onyomi |-> l[4], kunyomi |-> l[5], tags |-> l[6], stats |-> l[7],
      source |-> 0] :
        l \in {<< 26085, 0, <<>>, <<>>, <<>>, <<>>, <<>> >>,
               << 26085, 3, <<>>, <<>>, <<1>>, <<>>, <<>> >>,
               << 98, 3, <<1>>, <<>>, <<2, 1>>, <<0>>,
                  << <<3, 7>>, <<4, 8>> >> >>}}

-----------------------------------------------------------------------------
(* Specification of the writer with a sink that accepts every byte *)

Init == new

Next ==
    \/ \E value \in KeyStrings : intern(value)
    \/ \E tag \in TagInputs : push_tag(tag)
    \/ \E term \in TermInputs : push_term(term)
    \/ \E k \in KanjiInputs : push_kanji(k)
    \/ \E stdout \in BOOLEAN : write(Reliable, stdout)
    \/ load

Spec == Init /\ [][Next]_vars

-----------------------------------------------------------------------------
(* Specification of the string pool alone *)

Alphabet == {769, 128512}

RECURSIVE StringsUpTo(_)
\* Every string over Alphabet of at most n code points.
StringsUpTo(n) ==
    IF n = 0 THEN {<<>>}
    ELSE LET shorter == StringsUpTo(n - 1)
         IN  shorter \cup {Append(s, c) : s \in shorter, c \in Alphabet}

InternInputs == StringsUpTo(MaxStrLen)

NextIntern == \E value \in InternInputs : intern(value)

SpecIntern == new /\ [][NextIntern]_vars

-----------------------------------------------------------------------------
(* Specification of write with a sink that may fail or accept less *)

\* Calls of the sink, counted from the first, that may misbehave.
MaxCall == 5
\* Most bytes a short write accepts.
MaxAccept == 1

SinkBehaviours == [errAt : 0..MaxCall, shortAt : 0..MaxCall, accept : 0..MaxAccept]

SinkTerms == {t \in KeyTerms : t.search_key = 0} \cup {t \in ListTerms : t.source = 1}

NextSink ==
    \/ \E value \in KeyStrings : intern(value)
    \/ \E term \in SinkTerms : push_term(term)
    \/ \E beh \in SinkBehaviours, stdout \in BOOLEAN : write(beh, stdout)

SpecSink == Init /\ [][NextSink]_vars

\* Keys of an Indic script: a Bengali consonant before a Devanagari conjunct
\* (consonant, ZWJ, virama, consonant), and a single Devanagari letter.
ConjunctStrings == {<<2453, 2325, 8205, 2381, 2325>>, <<2400>>}

\* Terms with an expression and nothing else.
ConjunctTerms ==
    {[expression |-> e, reading |-> 0, search_key |-> 0, score |-> 0,
      sequence |-> 0, frequency |-> 0, glossary |-> <<>>, rules |-> <<>>,
      term_tags |-> <<>>, definition_tags |-> <<>>, source |-> 0] :
        e \in 1..2}

NextConjunct ==
    \/ \E value \in ConjunctStrings : intern(value)
    \/ \E term \in ConjunctTerms : push_term(term)
    \/ \E stdout \in BOOLEAN : write(Reliable, stdout)
    \/ load

SpecConjunct == Init /\ [][NextConjunct]_vars

-----------------------------------------------------------------------------
(* Properties: the string pool *)

Range(s) == {s[i] : i \in 1..Len(s)}

Issued == 0..(Len(string_list) - 1)

C1State ==
    /\ InRange(call.ret)
    /\ string(call.ret) = call.arg
    /\ (call.arg = <<>> => call.ret = 0)
    /\ string(0) = <<>>
    /\ \A i \in Issued : i # 0 => string(i) # <<>>

C1Step ==
    /\ \A i \in Issued : string(i)' = string(i)
    /\ \A i \in Issued :
          string(i) = call'.arg =>
              /\ call'.ret = i
              /\ string_list' = string_list
              /\ string_data' = string_data

\* C1: after Writer::new() and any intern calls, string(intern(s)) = s;
\* intern("") = 0 and no other index decodes to the empty string; an intern
\* of a string some index already decodes to returns that index and adds no
\* descriptor and no blob byte; every issued index keeps decoding to the
\* same string.
C1_InternRoundTrip == []C1State /\ [][C1Step]_vars

\* A repeated intern of the first string interned, which holds a two-byte
\* character, after a string with a four-byte character was interned.
C1_Witness ==
    /\ Len(string_list) = 3
    /\ call.ret = 1
    /\ 769 \in Range(call.arg)
    /\ 128512 \in Range(string(2))

-----------------------------------------------------------------------------
(* Properties: the written database, read back by DB::load *)

\* The list a handle addresses in the loaded arena.
Slice(h) == SubSeq(db.vector_data, h.offset + 1, h.offset + h.length)

InArena(h) == h.offset + h.length <= Len(db.vector_data)

TermScalars(t) ==
    [expression |-> t.expression, reading |-> t.reading,
     search_key |-> t.search_key, score |-> t.score, sequence |-> t.sequence,
     frequency |-> t.frequency, source |-> t.source]

KanjiScalars(k) ==
    [character |-> k.character, frequency |-> k.frequency, source |-> k.source]

SameRank(x, y) == x.frequency = y.frequency /\ x.score = y.score

SameFrequency(x, y) == x.frequency = y.frequency

\* out holds the elements of inp, those of one rank in the order of inp.
RankStable(out, inp) ==
    /\ Len(out) = Len(inp)
    /\ \A x \in Range(inp) :
          SelectSeq(out, LAMBDA y : SameRank(x, y))
              = SelectSeq(inp, LAMBDA y : SameRank(x, y))

FrequencyStable(out, inp) ==
    /\ Len(out) = Len(inp)
    /\ \A x \in Range(inp) :
          SelectSeq(out, LAMBDA y : SameFrequency(x, y))
              = SelectSeq(inp, LAMBDA y : SameFrequency(x, y))

\* Frequency descending, then score descending.
ByRelevance(out) ==
    \A k \in 1..(Len(out) - 1) :
        \/ out[k].frequency > out[k + 1].frequency
        \/ /\ out[k].frequency = out[k + 1].frequency
           /\ out[k].score >= out[k + 1].score

ByFrequency(out) ==
    \A k \in 1..(Len(out) - 1) : out[k].frequency >= out[k + 1].frequency

\* C2 (as claimed): write straight after Writer::new() succeeds, and loading
\* the bytes gives empty tables and a string table of length 1 holding the
\* empty string.
C2_EmptyBuilderWrites ==
    (state = "consumed" /\ Records = 0 /\ Len(string_list) = 1) =>
        /\ result = "Ok"
        /\ db.loaded =>
              /\ db.tags = <<>> /\ db.terms = <<>> /\ db.kanji = <<>>
              /\ db.index_prefix_jp = <<>> /\ db.index_suffix_jp = <<>>
              /\ db.index_chars_jp = <<>>
              /\ db.string_list = << [offset |-> 0, length |-> 0] >>
              /\ db.string_data = <<>>

\* C3: after write and load the tags are the pushed tags in push order; the
\* terms are the pushed terms by frequency descending then score descending,
\* equal ranks in intake order; the kanji are the pushed kanji by frequency
\* descending, equal frequencies in intake order; scalar fields unchanged.
C3_RoundTripOrder ==
    db.loaded =>
        /\ db.tags = tags
        /\ LET out == [i \in 1..Len(db.terms) |-> TermScalars(db.terms[i])]
               inp == [i \in 1..Len(terms) |-> TermScalars(terms[i])]
           IN  ByRelevance(out) /\ RankStable(out, inp)
        /\ LET out == [i \in 1..Len(db.kanji) |-> KanjiScalars(db.kanji[i])]
               inp == [i \in 1..Len(kanji) |-> KanjiScalars(kanji[i])]
           IN  ByFrequency(out) /\ FrequencyStable(out, inp)

\* Three terms loaded: the one pushed first went last, and the two of equal
\* rank pushed after it kept their intake order.
C3_Witness ==
    /\ db.loaded
    /\ Len(terms) = 3
    /\ terms[1].frequency < terms[2].frequency
    /\ SameRank(terms[2], terms[3])
    /\ terms[2].sequence # terms[3].sequence
    /\ db.terms[1].sequence = terms[2].sequence
    /\ db.terms[3].sequence = terms[1].sequence

\* The entries the term at position i (from 0) contributes, in emission order.
Emitted(t, i) ==
    << [key |-> t.expression, term |-> i] >>
    \o (IF t.reading # 0 THEN << [key |-> t.reading, term |-> i] >> ELSE <<>>)
    \o (IF t.search_key # 0 THEN << [key |-> t.search_key, term |-> i] >> ELSE <<>>)

EmittedAll == Concat([i \in 1..Len(db.terms) |-> Emitted(db.terms[i], i - 1)])

\* C4: the prefix index holds exactly the entries the loaded (sorted) terms
\* emit, ordered by the byte order of the key strings, entries with equal
\* key strings in emission order.
C4_PrefixIndex ==
    db.loaded =>
        LET out == db.index_prefix_jp
            inp == EmittedAll
        IN  /\ Len(out) = Len(inp)
            /\ \A k \in 1..(Len(out) - 1) :
                  StrCmp(string(out[k].key), string(out[k + 1].key)) <= 0
            /\ \A str \in {string(x.key) : x \in Range(inp)} :
                  SelectSeq(out, LAMBDA y : string(y.key) = str)
                      = SelectSeq(inp, LAMBDA y : string(y.key) = str)

\* Two terms the sort swapped, one of them with all three keys, two of
\* which are the same string.
C4_Witness ==
    /\ db.loaded
    /\ Len(terms) = 2
    /\ terms[1].frequency < terms[2].frequency
    /\ Len(db.index_prefix_jp) = 4
    /\ \E k \in 1..3 : /\ db.index_prefix_jp[k] = db.index_prefix_jp[k + 1]
                       /\ db.index_prefix_jp[k].term = 0
    /\ \E k \in 1..4 : db.index_prefix_jp[k].term = 1

\* The clusters of a string by the rules of UAX #29, last first: a mark
\* stays after its base.
GraphemeReversed(str) == Concat(Reverse(Graphemes(str)))

\* C5: the suffix index holds the entries of the prefix index, ordered by
\* the byte order of the grapheme-reversed key strings, entries with equal
\* reversed keys in prefix-index order.  The backward iteration of the
\* cursor joins the Bengali consonant to the conjunct that follows it, so
\* the key sorts by a string that is not its clusters reversed.
C5_SuffixIndex ==
    db.loaded =>
        LET out == db.index_suffix_jp
            inp == db.index_prefix_jp
            Key(e) == GraphemeReversed(string(e.key))
        IN  /\ Len(out) = Len(inp)
            /\ \A k \in 1..(Len(out) - 1) : StrCmp(Key(out[k]), Key(out[k + 1])) <= 0
            /\ \A str \in {Key(x) : x \in Range(inp)} :
                  SelectSeq(out, LAMBDA y : Key(y) = str)
                      = SelectSeq(inp, LAMBDA y : Key(y) = str)

\* The code points of the expression and the reading of a loaded term.
CharsOf(t) == Range(string(t.expression)) \cup Range(string(t.reading))

IndexedChars == UNION {CharsOf(db.terms[i]) : i \in 1..Len(db.terms)}

PositionsOf(c) == {i - 1 : i \in {j \in 1..Len(db.terms) : c \in CharsOf(db.terms[j])}}

\* C6: the char index has one entry per code point of some expression or
\* reading; the entry lists the positions of the terms that hold the code
\* point, strictly increasing; a code point of search keys only has none.
C6_CharIndex ==
    db.loaded =>
        LET out == db.index_chars_jp
        IN  /\ {out[k].character : k \in 1..Len(out)} = IndexedChars
            /\ Len(out) = Cardinality(IndexedChars)
            /\ \A k \in 1..Len(out) :
                  LET l == Slice(out[k].indexes)
                  IN  /\ InArena(out[k].indexes)
                      /\ Range(l) = PositionsOf(out[k].character)
                      /\ \A n \in 1..(Len(l) - 1) : l[n] < l[n + 1]
            /\ \A i \in 1..Len(db.terms) :
                  \A c \in Range(string(db.terms[i].search_key)) \ IndexedChars :
                      \A k \in 1..Len(out) : out[k].character # c

\* A search key with a code point ('a') that no expression or reading
\* holds, and a code point ('b') that two terms hold.
C6_Witness ==
    /\ db.loaded
    /\ \E i \in 1..Len(db.terms) :
          97 \in Range(string(db.terms[i].search_key)) \ IndexedChars
    /\ \E k \in 1..Len(db.index_chars_jp) :
          /\ db.index_chars_jp[k].character = 98
          /\ Slice(db.index_chars_jp[k].indexes) = <<0, 1>>

\* The complete byte stream of the nine sections, for some iteration order
\* of the char index.
CompleteStreams ==
    {RawBytes(RawOf(Built, order)) :
        order \in IterationOrders(DOMAIN IndexChars(SortedTerms))}

\* C7 (as claimed): write returns Ok only if the sink has received the
\* complete byte stream of all nine sections.
C7_NoPartialSuccess == result = "Ok" => sink \in CompleteStreams

AllBelow(l, n) == \A i \in 1..Len(l) : l[i] < n

\* The elements of a flattened stats list at the TagIdx / StrIdx places.
StatTags(l) == [i \in 1..(Len(l) \div 2) |-> l[2 * i - 1]]
StatInfos(l) == [i \in 1..(Len(l) \div 2) |-> l[2 * i]]

DbStrIdxOK ==
    LET n == Len(db.string_list)
    IN  /\ \A i \in 1..Len(db.tags) :
              db.tags[i].name < n /\ db.tags[i].category < n /\ db.tags[i].notes < n
        /\ \A i \in 1..Len(db.terms) :
              LET t == db.terms[i]
              IN  /\ t.expression < n /\ t.reading < n /\ t.search_key < n
                  /\ t.source < n
                  /\ AllBelow(Slice(t.glossary), n)
        /\ \A i \in 1..Len(db.kanji) :
              LET k == db.kanji[i]
              IN  /\ k.source < n
                  /\ AllBelow(Slice(k.meanings), n)
                  /\ AllBelow(Slice(k.onyomi), n)
                  /\ AllBelow(Slice(k.kunyomi), n)
                  /\ AllBelow(StatInfos(Slice(k.stats)), n)

DbTagIdxOK ==
    LET n == Len(db.tags)
    IN  /\ \A i \in 1..Len(db.terms) :
              LET t == db.terms[i]
              IN  /\ AllBelow(Slice(t.rules), n)
                  /\ AllBelow(Slice(t.term_tags), n)
                  /\ AllBelow(Slice(t.definition_tags), n)
        /\ \A i \in 1..Len(db.kanji) :
              LET k == db.kanji[i]
              IN  /\ AllBelow(Slice(k.tags), n)
                  /\ AllBelow(StatTags(Slice(k.stats)), n)

DbTermRefsOK ==
    LET n == Len(db.terms)
    IN  /\ \A i \in 1..Len(db.index_prefix_jp) : db.index_prefix_jp[i].term < n
        /\ \A i \in 1..Len(db.index_suffix_jp) : db.index_suffix_jp[i].term < n
        /\ \A i \in 1..Len(db.index_chars_jp) :
              /\ InArena(db.index_chars_jp[i].indexes)
              /\ AllBelow(Slice(db.index_chars_jp[i].indexes), n)

\* The fields write or push_tag pass to Writer::string.
DbKeysOK ==
    LET n == Len(db.string_list)
    IN  /\ \A i \in 1..Len(db.tags) : db.tags[i].name < n
        /\ \A i \in 1..Len(db.terms) :
              /\ db.terms[i].expression < n
              /\ db.terms[i].reading < n
              /\ db.terms[i].search_key < n

\* Every index of the records pushed is, when write is called, below the
\* length of the table it refers to.
PushedInRange ==
    LET ns == Len(string_list)
        nt == Len(tags)
    IN  /\ \A i \in 1..Len(tags) :
              tags[i].name < ns /\ tags[i].category < ns /\ tags[i].notes < ns
        /\ \A i \in 1..Len(terms) :
              LET t == terms[i]
              IN  /\ t.expression < ns /\ t.reading < ns /\ t.search_key < ns
                  /\ t.source < ns
                  /\ AllBelow(t.glossary, ns)
                  /\ AllBelow(t.rules, nt)
                  /\ AllBelow(t.term_tags, nt)
                  /\ AllBelow(t.definition_tags, nt)
        /\ \A i \in 1..Len(kanji) :
              LET k == kanji[i]
              IN  /\ k.source < ns
                  /\ AllBelow(k.meanings, ns)
                  /\ AllBelow(k.onyomi, ns)
                  /\ AllBelow(k.kunyomi, ns)
                  /\ AllBelow(k.tags, nt)
                  /\ \A j \in 1..Len(k.stats) :
                        k.stats[j][1] < nt /\ k.stats[j][2] < ns

\* C8 (as claimed): whenever write succeeds, every StrIdx, TagIdx and term
\* reference of the written database is in range.
C8_ClosedUnderReferences ==
    db.loaded => DbStrIdxOK /\ DbTagIdxOK /\ DbTermRefsOK

\* C8 (amended): whenever write succeeds, every term reference of the
\* indexes is below the number of terms, and every tag name and every
\* expression, reading and search_key is below the string table length; the
\* other StrIdx and TagIdx are in range when the pushed ones were.
C8_ClosedWhenPushedInRange ==
    db.loaded =>
        /\ DbTermRefsOK
        /\ DbKeysOK
        /\ PushedInRange => DbStrIdxOK /\ DbTagIdxOK

\* Two tags and a term whose glossary, rules and definition_tags refer to
\* issued strings and pushed tags.
C8_Witness ==
    /\ db.loaded
    /\ PushedInRange
    /\ Len(db.tags) = 2
    /\ \E i \in 1..Len(db.terms) :
          /\ db.terms[i].glossary.length = 2
          /\ db.terms[i].definition_tags.length = 2
          /\ db.terms[i].source # 0

DbHandles ==
    UNION {{db.terms[i].glossary, db.terms[i].rules, db.terms[i].term_tags,
            db.terms[i].definition_tags} : i \in 1..Len(db.terms)}
    \cup UNION {{db.kanji[i].meanings, db.kanji[i].onyomi, db.kanji[i].kunyomi,
                 db.kanji[i].tags, db.kanji[i].stats} : i \in 1..Len(db.kanji)}
    \cup {db.index_chars_jp[i].indexes : i \in 1..Len(db.index_chars_jp)}

\* The lengths of all lists write converts: those of the pushed terms and
\* kanji (a stats pair counts two), and one position per code point and term.
ConvertedLength ==
    SumSeq([i \in 1..Len(terms) |->
              Len(terms[i].glossary) + Len(terms[i].rules)
              + Len(terms[i].term_tags) + Len(terms[i].definition_tags)])
    + SumSeq([i \in 1..Len(kanji) |->
                Len(kanji[i].meanings) + Len(kanji[i].onyomi)
                + Len(kanji[i].kunyomi) + Len(kanji[i].tags)
                + 2 * Len(kanji[i].stats)])
    + SumSeq([i \in 1..Len(terms) |-> Cardinality(CharsOf(terms[i]))])

\* C9: a written handle of length 0 has offset 0, and the arena is as long
\* as the non-empty lists converted, so an empty list takes no space.
C9_EmptyHandles ==
    db.loaded =>
        /\ \A h \in DbHandles : h.length = 0 => h.offset = 0
        /\ Len(db.vector_data) = ConvertedLength

\* A kanji without meanings converted after a kanji that put lists in the
\* arena.
C9_Witness ==
    /\ db.loaded
    /\ Len(db.kanji) = 2
    /\ db.kanji[1].meanings.length > 0
    /\ db.kanji[2].meanings = [offset |-> 0, length |-> 0]
    /\ db.kanji[2].kunyomi.length > 0

\* A loaded term with its lists read through its handles.
LoadedTerm(r) ==
    [expression |-> r.expression, reading |-> r.reading,
     search_key |-> r.search_key, score |-> r.score, sequence |-> r.sequence,
     frequency |-> r.frequency, source |-> r.source,
     glossary |-> Slice(r.glossary), rules |-> Slice(r.rules),
     term_tags |-> Slice(r.term_tags),
     definition_tags |-> Slice(r.definition_tags)]

\* The pairs a flattened list [t1, s1, t2, s2, ...] stands for.
Pairs(l) == [i \in 1..(Len(l) \div 2) |-> <<l[2 * i - 1], l[2 * i]>>]

\* A loaded kanji with its lists read through its handles.
LoadedKanji(r) ==
    [character |-> r.character, frequency |-> r.frequency, source |-> r.source,
     meanings |-> Slice(r.meanings), onyomi |-> Slice(r.onyomi),
     kunyomi |-> Slice(r.kunyomi), tags |-> Slice(r.tags),
     stats |-> Pairs(Slice(r.stats))]

\* C10: every handle lies in the arena and addresses the elements of its
\* list in order (stats flattened pair by pair, so of even length): the
\* loaded terms and kanji, read through their handles, are the pushed ones,
\* and a char index entry addresses its positions in ascending order.
C10_HandlesAddressLists ==
    db.loaded =>
        /\ \A h \in DbHandles : InArena(h)
        /\ \A i \in 1..Len(db.kanji) : db.kanji[i].stats.length % 2 = 0
        /\ RankStable([i \in 1..Len(db.terms) |-> LoadedTerm(db.terms[i])], terms)
        /\ FrequencyStable([i \in 1..Len(db.kanji) |-> LoadedKanji(db.kanji[i])],
                           kanji)
        /\ \A i \in 1..Len(db.index_chars_jp) :
              Slice(db.index_chars_jp[i].indexes)
                  = SortedSeq(PositionsOf(db.index_chars_jp[i].character))

\* A kanji whose stats [(3, 7), (4, 8)] lie flattened in the arena behind
\* its other lists, followed by the lists of a term.
C10_Witness ==
    /\ db.loaded
    /\ \E i \in 1..Len(db.kanji) :
          /\ db.kanji[i].stats.length = 4
          /\ db.kanji[i].stats.offset > 0
          /\ Slice(db.kanji[i].stats) = <<3, 7, 4, 8>>
    /\ \E i \in 1..Len(db.terms) : db.terms[i].glossary.offset > 0

====
